---------------------------- MODULE Spec2Model ----------------------------
(***************************************************************************)
(* Word-level model of the segregated-list allocator of                    *)
(* src/unnamed/part_000 (mm_init, mm_malloc, mm_free, mm_realloc and their *)
(* helpers), and of its single-list predecessor                            *)
(* src/malloclab-handout/mm.c, which has a specification of its own,       *)
(* SpecHandout.                                                            *)
(*                                                                         *)
(* Memory is a sparse map from byte addresses (multiples of 8) to 64-bit   *)
(* words.  A header or footer word holds the bit-fields of header_t:       *)
(* bit 0 is `allocated`, bits 1..31 are `block_size`, so the word of a     *)
(* block of size s is 2*s + a.  A link word holds a block address, NULL is *)
(* 0.  The domain of the map is the set of words whose content the         *)
(* allocator has determined: fresh memory from the extender is absent      *)
(* (uninitialised) and so is every payload word of a block handed to the   *)
(* client (the client may store anything there).                           *)
(*                                                                         *)
(* The helpers are state transformers on a record                          *)
(*    [m |-> memory, top |-> mem_brk, n |-> extender calls granted,        *)
(*     ok |-> no undefined access so far]                                  *)
(* to which a field pre is added to observe the arguments of the list_pop  *)
(* and list_push calls.                                                    *)
(* An access outside the managed heap, to an unaligned address or to a     *)
(* word of unknown content clears ok; a public call whose execution clears *)
(* ok has undefined behaviour: it takes the program to pc = "undefined",   *)
(* from where nothing is explored.                                         *)
(*                                                                         *)
(* A request size is a 64-bit size_t; mm_malloc keeps the adjusted size in *)
(* a uint32_t.  Requests are records [hi, lo] standing for hi * 2^30 + lo, *)
(* and AdjustedSize keeps the low 32 bits as the code does.                *)
(***************************************************************************)
EXTENDS Integers, Sequences, FiniteSets, TLC

VARIABLES
    mem,          \* the heap words, address -> word
    mem_brk,      \* end of the region obtained from the extender
    grows,        \* number of extender calls granted so far
    segListHead,  \* static block_t **segListHead
    prologue,     \* static block_t *prologue
    pc,           \* "fresh" | "ready" | "init_failed" | "exited" | "undefined"
    live,         \* the client's live allocations: records [p, u]
    last,         \* the last public call: [op, u, ret]
    calls,        \* number of public calls made after mm_init
    head          \* static block_t *head of src/malloclab-handout/mm.c

vars == <<mem, mem_brk, grows, segListHead, prologue, pc, live, last, calls,
          head>>

---------------------------------------------------------------------------
(* Program constants                                                       *)

NULL == 0
FREE == 0
ALLOC == 1
CHUNKSIZE == 65536
HDR == 8
OVERHEAD == 16
MIN_BLOCK_SIZE == 32
TOTALNUMLIST == 11
SMALL_REQUEST == 96
BIAS == 5

(* Bounds of the model                                                     *)

MaxGrow == 2      \* extender calls granted after mm_init
MaxLive == 2      \* allocations the client holds at once
MaxSmash == 16    \* words a copy may store beyond its destination payload
MaxWalk == 64     \* blocks a list or heap walk visits
MaxCalls == 6     \* public calls after mm_init

TwoTo30 == 1024 * 1024 * 1024
HeapStart == 8 * 512

---------------------------------------------------------------------------
(* size_t values.  A request is hi * 2^30 + lo with 0 <= lo < 2^30, so     *)
(* that values at and above 2^32 can be written down.                      *)

U(h, l) == [hi |-> h, lo |-> l]

NarrowRequests == { U(0, 0), U(0, 1), U(0, 100), U(0, 65504) }
WideRequests == { U(4, 0) }
Requests == NarrowRequests \cup WideRequests

(* The words a client may have stored in a payload that realloc copies: a  *)
(* client fills its payload with one of them.  Only a copy for a wrapped    *)
(* request can carry them out of the new payload, so the choice is offered *)
(* for those requests only.                                                *)
ClientWords == { 16, 24 }
DataFor(u) == IF u \in WideRequests THEN ClientWords ELSE { 16 }

---------------------------------------------------------------------------
(* header_t bit-fields                                                     *)

AllocOf(w) == w % 2
SizeOf(w) == w \div 2
HdrWord(size, a) == 2 * size + a

(* Memory accesses                                                         *)

Valid(s, a) == a % 8 = 0 /\ a >= HeapStart /\ a < s.top
Known(s, a) == Valid(s, a) /\ a \in DOMAIN s.m
Ld(s, a) == IF a \in DOMAIN s.m THEN s.m[a] ELSE 0
Fail(s) == [s EXCEPT !.ok = FALSE]
Touch(s, a) == IF Known(s, a) THEN s ELSE Fail(s)
Put(f, a, v) == IF a \in DOMAIN f THEN [f EXCEPT ![a] = v] ELSE (a :> v) @@ f
St(s, a, v) ==
    IF Valid(s, a) /\ v >= 0 /\ v < TwoTo30
    THEN [s EXCEPT !.m = Put(s.m, a, v)]
    ELSE Fail(s)

block_size(s, b) == SizeOf(Ld(s, b))
allocated(s, b) == AllocOf(Ld(s, b))

(* b->allocated = a, the size field kept *)
SetAllocated(s, b, a) == St(Touch(s, b), b, HdrWord(SizeOf(Ld(s, b)), a))
(* b->block_size = size, the allocated bit kept *)
SetBlockSize(s, b, size) == St(Touch(s, b), b, HdrWord(size, AllocOf(Ld(s, b))))
(* both fields assigned one after the other *)
SetHeader(s, b, size, a) == St(s, b, HdrWord(size, a))

get_footer(s, b) == b + block_size(s, b) - HDR

NextOf(s, b) == Ld(s, b + 8)
PrevOf(s, b) == Ld(s, b + 16)
SetNext(s, b, v) == St(s, b + 8, v)
SetPrev(s, b, v) == St(s, b + 16, v)

HeadAddr(i) == segListHead + 8 * i
HeadOf(s, i) == Ld(s, HeadAddr(i))

---------------------------------------------------------------------------
(* Size classes                                                            *)

RECURSIVE Log2(_)
Log2(n) == IF n <= 1 THEN 0 ELSE 1 + Log2(n \div 2)

(* 31 - __builtin_clz(input); the result is undefined for input = 0, which *)
(* is mapped to an index outside the head array so that the first list     *)
(* access with it is an undefined access.                                  *)
logBaseTwo(input) == IF input <= 0 THEN 0 - 1000 ELSE Log2(input)

segListIndex(input) ==
    LET index == logBaseTwo(input) - BIAS
    IN  IF index < TOTALNUMLIST - 1 THEN index ELSE TOTALNUMLIST - 1

---------------------------------------------------------------------------
(* Free lists                                                              *)

Lists == 0..(TOTALNUMLIST - 1)

(* the members of a list of s, following next from b *)
RECURSIVE NodesFrom(_, _, _)
NodesFrom(s, b, fuel) ==
    IF fuel = 0 \/ b = NULL \/ ~Known(s, b) \/ ~Known(s, b + 8)
    THEN {}
    ELSE {b} \cup NodesFrom(s, NextOf(s, b), fuel - 1)

MembersOf(s, i) == NodesFrom(s, HeadOf(s, i), MaxWalk)

(* What the callers of list_pop and list_push are to guarantee: the index  *)
(* is a list index, derived from the size the header of the block has at   *)
(* the call, a size of at least MIN_BLOCK_SIZE; list_pop is given a member *)
(* of that list and list_push a block that is in no list.  A state that    *)
(* carries the field pre is under observation: pre turns FALSE at the      *)
(* first call made without its guarantee.                                  *)
index_pre(s, b, index) ==
    /\ index \in Lists
    /\ Known(s, b)
    /\ block_size(s, b) >= MIN_BLOCK_SIZE
    /\ index = segListIndex(block_size(s, b))

pop_pre(s, b, index) == index_pre(s, b, index) /\ b \in MembersOf(s, index)

push_pre(s, b, index) ==
    index_pre(s, b, index) /\ \A i \in Lists : b \notin MembersOf(s, i)

Noted(s, pre) ==
    IF "pre" \in DOMAIN s /\ s.ok /\ ~pre THEN [s EXCEPT !.pre = FALSE] ELSE s

list_push(s, newblock, index) ==
    LET s0 == Touch(Noted(s, push_pre(s, newblock, index)), HeadAddr(index))
        hd == HeadOf(s, index)
    IN  IF hd = NULL
        THEN SetNext(SetPrev(St(s0, HeadAddr(index), newblock),
                             newblock, NULL), newblock, NULL)
        ELSE St(SetPrev(SetPrev(SetNext(s0, newblock, hd), newblock, NULL),
                        hd, newblock),
                HeadAddr(index), newblock)

list_pop(s, removeblock, index) ==
    LET s0 == Touch(Touch(Noted(s, pop_pre(s, removeblock, index)),
                          removeblock + 8), removeblock + 16)
        nx == NextOf(s, removeblock)
        pv == PrevOf(s, removeblock)
    IN  IF pv = NULL /\ nx = NULL
        THEN St(s0, HeadAddr(index), NULL)
        ELSE LET s1 == Touch(s0, HeadAddr(index))
             IN  IF HeadOf(s, index) = removeblock
                 THEN SetPrev(St(s1, HeadAddr(index), nx), nx, NULL)
                 ELSE IF nx = NULL
                      THEN SetNext(s1, pv, NULL)
                      ELSE SetNext(SetPrev(s1, nx, pv), pv, nx)

---------------------------------------------------------------------------
(* The heap extender (external): grows the region by exactly incr bytes    *)
(* and returns its old end, or refuses.  It refuses when the caller's      *)
(* environment says so (grant = FALSE) and always after MaxGrow grants.    *)

Ret(s, b) == [s |-> s, b |-> b]

mem_sbrk(s, incr, grant) ==
    IF grant /\ s.n < MaxGrow /\ incr > 0 /\ incr < TwoTo30
    THEN Ret([s EXCEPT !.top = s.top + incr, !.n = s.n + 1], s.top)
    ELSE Ret(s, 0 - 1)

---------------------------------------------------------------------------
(* Statements that several helpers share                                   *)

(* list_pop(b, segListIndex(b->block_size)) *)
pop_block(s, b) == list_pop(Touch(s, b), b, segListIndex(block_size(s, b)))
(* list_push(b, segListIndex(b->block_size)) *)
push_block(s, b) == list_push(Touch(s, b), b, segListIndex(block_size(s, b)))
(* footer = get_footer(b); footer->block_size = size; footer->allocated = a *)
write_footer(s, b, size, a) == SetHeader(Touch(s, b), get_footer(s, b), size, a)
(* footer = get_footer(b); footer->block_size = b->block_size *)
copy_size_to_footer(s, b) ==
    SetBlockSize(Touch(s, b), get_footer(s, b), block_size(s, b))
(* footer = get_footer(b); footer->allocated = a *)
mark_footer(s, b, a) == SetAllocated(Touch(s, b), get_footer(s, b), a)
(* b->block_size += n->block_size *)
add_size(s, b, n) ==
    SetBlockSize(Touch(s, n), b, block_size(s, b) + block_size(s, n))
(* b->block_size += m->block_size + n->block_size *)
add_sizes(s, b, m, n) ==
    SetBlockSize(Touch(Touch(s, m), n), b,
                 block_size(s, b) + block_size(s, m) + block_size(s, n))

---------------------------------------------------------------------------
(* coalesce - boundary tag coalescing, returns the coalesced block         *)

(* Case 4 after the three list_pop calls: prev_block is computed again     *)
(* from the footer before block.                                           *)
coalesce_both(s, prev_footer, block, next_header) ==
    LET prev_block == prev_footer - block_size(s, prev_footer) + HDR
    IN  Ret(push_block(copy_size_to_footer(
                add_sizes(Touch(s, prev_footer), prev_block, block, next_header),
                prev_block), prev_block),
            prev_block)

coalesce(s, block) ==
    LET prev_footer == block - HDR
        next_header == block + block_size(s, block)
        prev_alloc == allocated(s, prev_footer)
        next_alloc == allocated(s, next_header)
        next_block == next_header
        prev_block == prev_footer - block_size(s, prev_footer) + HDR
        s0 == Touch(Touch(Touch(s, block), prev_footer), next_header)
    IN  IF prev_alloc = ALLOC /\ next_alloc = ALLOC
        THEN Ret(s0, block)
        ELSE IF prev_alloc = ALLOC /\ next_alloc = FREE
        THEN Ret(push_block(copy_size_to_footer(
                     add_size(pop_block(pop_block(s0, block), next_block),
                              block, next_header),
                     block), block),
                 block)
        ELSE IF prev_alloc = FREE /\ next_alloc = ALLOC
        THEN Ret(push_block(copy_size_to_footer(
                     add_size(pop_block(pop_block(s0, block), prev_block),
                              prev_block, block),
                     prev_block), prev_block),
                 prev_block)
        ELSE coalesce_both(
                 pop_block(pop_block(pop_block(s0, prev_block), block), next_block),
                 prev_footer, block, next_header)

---------------------------------------------------------------------------
(* extend_heap - extend the heap with a free block, return the block       *)

(* extend_heap after a granted mem_sbrk: block is the old epilogue *)
extend_block(s, block, size, willCoalesce) ==
    LET s1 == write_footer(SetHeader(Touch(s, block), block, size, FREE),
                           block, size, FREE)
        new_epilogue == get_footer(s1, block) + HDR
        s2 == push_block(SetHeader(s1, new_epilogue, 0, ALLOC), block)
    IN  IF willCoalesce THEN coalesce(s2, block) ELSE Ret(s2, block)

extend_heap(s, words, willCoalesce, grant) ==
    LET size == words * 8
        r == mem_sbrk(s, size, grant)
    IN  IF size = 0 \/ r.b = 0 - 1
        THEN Ret(s, NULL)
        ELSE extend_block(r.s, r.b - HDR, size, willCoalesce)

---------------------------------------------------------------------------
(* place - place asize bytes at the start of a free block, split if the    *)
(* remainder is at least the minimum block size                            *)

(* the new free block behind the allocated part *)
place_remainder(s, block, split_size) ==
    LET new_block == block + block_size(s, block)
    IN  push_block(write_footer(SetHeader(Touch(s, block), new_block,
                                          split_size, FREE),
                                new_block, split_size, FREE),
                   new_block)

place(s, block, asize) ==
    LET split_size == block_size(s, block) - asize
    IN  IF split_size < 0
        THEN Fail(s)
        ELSE IF split_size >= MIN_BLOCK_SIZE
        THEN place_remainder(
                 write_footer(
                     SetAllocated(SetBlockSize(pop_block(s, block), block, asize),
                                  block, ALLOC),
                     block, asize, ALLOC),
                 block, split_size)
        ELSE mark_footer(SetAllocated(pop_block(s, block), block, ALLOC),
                         block, ALLOC)

---------------------------------------------------------------------------
(* find_fit - first fit over the lists segListIndex(asize) .. 10           *)

RECURSIVE fit_in_list(_, _, _, _)
fit_in_list(s, b, asize, fuel) ==
    IF b = NULL
    THEN Ret(s, NULL)
    ELSE IF fuel = 0 \/ ~Known(s, b) \/ ~Known(s, b + 8)
    THEN Ret(Fail(s), NULL)
    ELSE IF allocated(s, b) = FREE /\ asize <= block_size(s, b)
    THEN Ret(s, b)
    ELSE fit_in_list(s, NextOf(s, b), asize, fuel - 1)

RECURSIVE fit_from(_, _, _)
fit_from(s, i, asize) ==
    IF i >= TOTALNUMLIST
    THEN Ret(s, NULL)
    ELSE LET r == fit_in_list(Touch(s, HeadAddr(i)), HeadOf(s, i), asize, MaxWalk)
         IN  IF r.b # NULL \/ ~r.s.ok THEN r ELSE fit_from(r.s, i + 1, asize)

find_fit(s, asize) == fit_from(s, segListIndex(asize), asize)

---------------------------------------------------------------------------
(* mm_malloc                                                               *)

(* asize = ((size + OVERHEAD + 7) >> 3) << 3 stored into a uint32_t, then  *)
(* raised to MIN_BLOCK_SIZE.  The carry out of the low 30 bits goes into   *)
(* hi, and hi % 4 keeps the bits 30 and 31 that a uint32_t holds.          *)
AdjustedSize(u) ==
    LET lo1 == u.lo + OVERHEAD + 7
        hi32 == (u.hi + (lo1 \div TwoTo30)) % 4
        asize == hi32 * TwoTo30 + ((lo1 % TwoTo30) \div 8) * 8
    IN  IF asize < MIN_BLOCK_SIZE THEN MIN_BLOCK_SIZE ELSE asize

IsZero(u) == u.hi = 0 /\ u.lo = 0

(* size < n for a size_t size and a block size n < 2^30 *)
Below(u, n) == u.hi = 0 /\ u.lo < n

(* place(block, asize); return block->body.payload *)
place_and_return(r, asize) == Ret(place(r.s, r.b, asize), r.b + HDR)

(* the end of mm_malloc: e is what extend_heap(extendwords, true) returned *)
mm_malloc_extended(e, asize) ==
    IF e.b # NULL THEN place_and_return(e, asize) ELSE Ret(e.s, NULL)

(* mm_malloc from the free-list search on: f is what find_fit returned *)
mm_malloc_found(f, asize, grant2) ==
    IF f.b # NULL
    THEN place_and_return(f, asize)
    ELSE LET extendsize == IF asize > CHUNKSIZE THEN asize ELSE CHUNKSIZE
         IN  mm_malloc_extended(extend_heap(f.s, extendsize \div 8, TRUE, grant2),
                                asize)

mm_malloc_search(s, asize, grant2) ==
    mm_malloc_found(find_fit(s, asize), asize, grant2)

(* the small-request path: e is what extend_heap(extendwords, false)       *)
(* returned                                                                *)
mm_malloc_small(e, s, asize, grant2) ==
    IF e.b # NULL
    THEN place_and_return(e, asize)
    ELSE mm_malloc_search(s, asize, grant2)

mm_malloc_sized(s, asize, grant1, grant2) ==
    IF asize <= SMALL_REQUEST
    THEN mm_malloc_small(extend_heap(s, asize \div 8, FALSE, grant1),
                         s, asize, grant2)
    ELSE mm_malloc_search(s, asize, grant2)

mm_malloc(s, size, grant1, grant2) ==
    IF IsZero(size)
    THEN Ret(s, NULL)
    ELSE mm_malloc_sized(s, AdjustedSize(size), grant1, grant2)

(* The payload of a returned block belongs to the client from now on: its  *)
(* words are no longer known to the allocator.                             *)
PayloadEnd(s, payload) == payload + block_size(s, payload - HDR) - OVERHEAD

HandOver(s, payload) ==
    IF payload = NULL
    THEN s
    ELSE [s EXCEPT !.m = [a \in { x \in DOMAIN s.m :
                                    x < payload \/ x >= PayloadEnd(s, payload) }
                           |-> s.m[a]]]

---------------------------------------------------------------------------
(* mm_free                                                                 *)

mm_free(s, payload) ==
    LET block == payload - HDR
    IN  coalesce(push_block(mark_footer(SetAllocated(s, block, FREE),
                                        block, FREE),
                            block),
                 block).s

---------------------------------------------------------------------------
(* mm_realloc                                                              *)

(* memcpy(dst, src, n).  The words it stores inside the new payload belong *)
(* to the client and are not recorded; a word stored beyond the new        *)
(* payload is recorded.  A word read from the old payload is client data   *)
(* (data); a word read beyond it is whatever the heap holds there.  A copy  *)
(* that overlaps its source, that ends inside a word beyond the payload,   *)
(* or that stores more than MaxSmash words beyond the payload is not       *)
(* followed.                                                               *)
Max(a, b) == IF a >= b THEN a ELSE b

memcpy(s, dst, src, n, data) ==
    LET dstEnd == PayloadEnd(s, dst)
        srcEnd == PayloadEnd(s, src)
        first == Max(0, (dstEnd - dst) \div 8)
        overlap == n > 0 /\ dst < src + n /\ src < dst + n
        partial == n % 8 # 0 /\ dst + 8 * (n \div 8) >= dstEnd
        js == first .. ((n \div 8) - 1)
        from(j) == src + 8 * j
        val(j) == IF from(j) < srcEnd THEN data ELSE Ld(s, from(j))
        stored == { dst + 8 * j : j \in js }
    IN  IF overlap \/ partial \/ (n \div 8) - first > MaxSmash
           \/ \E j \in js : \/ ~Valid(s, dst + 8 * j)
                            \/ (from(j) >= srcEnd /\ ~Known(s, from(j)))
        THEN Fail(s)
        ELSE [s EXCEPT !.m = [x \in (DOMAIN s.m) \cup stored |->
                                IF x \in stored
                                THEN val((x - dst) \div 8) ELSE s.m[x]]]

(* copySize = block->block_size; if (size < copySize) copySize = size;     *)
(* memcpy(newp, ptr, copySize)                                             *)
copySize(s, ptr, size) ==
    IF Below(size, block_size(s, ptr - HDR))
    THEN size.lo ELSE block_size(s, ptr - HDR)

realloc_copy(s, newp, ptr, size, data) ==
    memcpy(Touch(s, ptr - HDR), newp, ptr, copySize(s, ptr, size), data)

(* mm_realloc after its mm_malloc call returned r *)
mm_realloc_with(r, ptr, size, data) ==
    IF r.b = NULL
    THEN [s |-> r.s, b |-> NULL, exit |-> TRUE]
    ELSE [s |-> mm_free(realloc_copy(HandOver(r.s, r.b), r.b, ptr, size, data),
                        ptr),
          b |-> r.b, exit |-> FALSE]

mm_realloc(s, ptr, size, data, grant1, grant2) ==
    mm_realloc_with(mm_malloc(s, size, grant1, grant2), ptr, size, data)

---------------------------------------------------------------------------
(* Dead words.  The words of a free block between its two link words and   *)
(* its footer are never read before they are written again (place and      *)
(* coalesce write every header, footer and link they later read), so they  *)
(* are dropped from the memory at the end of a public call, like the       *)
(* payload words of an allocated block.  The free blocks are those the     *)
(* header walk from the first block finds.                                 *)

RECURSIVE DeadSpans(_, _, _)
DeadSpans(s, b, fuel) ==
    IF fuel = 0 \/ ~Known(s, b) \/ block_size(s, b) < HDR
    THEN <<>>
    ELSE (IF allocated(s, b) = FREE /\ block_size(s, b) > MIN_BLOCK_SIZE
          THEN << <<b + 24, b + block_size(s, b) - OVERHEAD>> >>
          ELSE <<>>)
         \o DeadSpans(s, b + block_size(s, b), fuel - 1)

Forget(s) ==
    LET spans == DeadSpans(s, prologue + HDR, MaxWalk)
        dead(x) == \E i \in 1..Len(spans) : spans[i][1] <= x /\ x <= spans[i][2]
    IN  IF spans = <<>>
        THEN s
        ELSE [s EXCEPT !.m = [a \in { x \in DOMAIN s.m : ~dead(x) } |-> s.m[a]]]

---------------------------------------------------------------------------
(* mm_init                                                                 *)

RECURSIVE PutAll(_, _)
PutAll(f, ws) ==
    IF ws = <<>> THEN f ELSE PutAll(Put(f, Head(ws)[1], Head(ws)[2]), Tail(ws))

(* mm_init without segListHead[TOTALNUMLIST - 1] = init_block *)
InitialWordsUnlisted(seg, pro) ==
    LET init_block == pro + HDR
        size == CHUNKSIZE - OVERHEAD
    IN  [i \in 1..TOTALNUMLIST |-> <<seg + 8 * (i - 1), NULL>>]
        \o << <<pro, HdrWord(HDR, ALLOC)>>,
              <<init_block, HdrWord(size, FREE)>>,
              <<init_block + 8, NULL>>,
              <<init_block + 16, NULL>>,
              <<init_block + size - HDR, HdrWord(size, FREE)>>,
              <<init_block + size, HdrWord(0, ALLOC)>> >>

InitialWords(seg, pro) ==
    LET init_block == pro + HDR
        size == CHUNKSIZE - OVERHEAD
    IN  [i \in 1..TOTALNUMLIST |-> <<seg + 8 * (i - 1), NULL>>]
        \o << <<pro, HdrWord(HDR, ALLOC)>>,
              <<init_block, HdrWord(size, FREE)>>,
              <<init_block + 8, NULL>>,
              <<init_block + 16, NULL>>,
              <<init_block + size - HDR, HdrWord(size, FREE)>>,
              <<seg + 8 * (TOTALNUMLIST - 1), init_block>>,
              <<init_block + size, HdrWord(0, ALLOC)>> >>

HeadWords(seg) == [i \in 1..TOTALNUMLIST |-> <<seg + 8 * (i - 1), NULL>>]

---------------------------------------------------------------------------
(* The single-list allocator of src/malloclab-handout/mm.c.  It has the    *)
(* same block layout, one explicit free list whose first block is held in  *)
(* the static pointer head, no head array in the heap and no small-request *)
(* path.  Its helpers work on a state record with a further field head.    *)
(* The operators carry the names of the functions of mm.c with _1 added.   *)

SetHead(s, v) == [s EXCEPT !.head = v]

list_push_1(s, newblock) ==
    IF s.head = NULL
    THEN SetNext(SetPrev(SetHead(s, newblock), newblock, NULL), newblock, NULL)
    ELSE SetHead(SetPrev(SetPrev(SetNext(s, newblock, s.head), newblock, NULL),
                         s.head, newblock),
                 newblock)

list_pop_1(s, removeblock) ==
    LET s0 == Touch(Touch(s, removeblock + 8), removeblock + 16)
        nx == NextOf(s, removeblock)
        pv == PrevOf(s, removeblock)
    IN  IF pv = NULL /\ nx = NULL
        THEN SetPrev(SetNext(SetHead(s0, NULL), removeblock, NULL),
                     removeblock, NULL)
        ELSE IF s.head = removeblock
        THEN SetPrev(SetPrev(SetHead(s0, nx), nx, NULL), removeblock, NULL)
        ELSE IF nx = NULL
        THEN SetPrev(SetNext(s0, pv, NULL), removeblock, NULL)
        ELSE SetPrev(SetNext(SetNext(SetPrev(s0, nx, pv), pv, nx),
                             removeblock, NULL),
                     removeblock, NULL)

(* Case 4 after the three list_pop calls: prev_block is computed again     *)
(* from the footer before block.                                           *)
coalesce_both_1(s, prev_footer, block, next_header) ==
    LET prev_block == prev_footer - block_size(s, prev_footer) + HDR
    IN  Ret(list_push_1(copy_size_to_footer(
                add_sizes(Touch(s, prev_footer), prev_block, block, next_header),
                prev_block), prev_block),
            prev_block)

coalesce_1(s, block) ==
    LET prev_footer == block - HDR
        next_header == block + block_size(s, block)
        prev_alloc == allocated(s, prev_footer)
        next_alloc == allocated(s, next_header)
        next_block == next_header
        prev_block == prev_footer - block_size(s, prev_footer) + HDR
        s0 == Touch(Touch(Touch(s, block), prev_footer), next_header)
    IN  IF prev_alloc = ALLOC /\ next_alloc = ALLOC
        THEN Ret(s0, block)
        ELSE IF prev_alloc = ALLOC /\ next_alloc = FREE
        THEN Ret(list_push_1(copy_size_to_footer(
                     add_size(list_pop_1(list_pop_1(s0, block), next_block),
                              block, next_header),
                     block), block),
                 block)
        ELSE IF prev_alloc = FREE /\ next_alloc = ALLOC
        THEN Ret(list_push_1(copy_size_to_footer(
                     add_size(list_pop_1(list_pop_1(s0, block), prev_block),
                              prev_block, block),
                     prev_block), prev_block),
                 prev_block)
        ELSE coalesce_both_1(
                 list_pop_1(list_pop_1(list_pop_1(s0, prev_block), block),
                            next_block),
                 prev_footer, block, next_header)

(* extend_heap after a granted mem_sbrk: block is the old epilogue *)
extend_block_1(s, block, size) ==
    LET s1 == write_footer(SetHeader(Touch(s, block), block, size, FREE),
                           block, size, FREE)
        new_epilogue == get_footer(s1, block) + HDR
    IN  coalesce_1(list_push_1(SetHeader(s1, new_epilogue, 0, ALLOC), block),
                   block)

extend_heap_1(s, words, grant) ==
    LET size == words * 8
        r == mem_sbrk(s, size, grant)
    IN  IF size = 0 \/ r.b = 0 - 1
        THEN Ret(s, NULL)
        ELSE extend_block_1(r.s, r.b - HDR, size)

(* the new free block behind the allocated part *)
place_remainder_1(s, block, split_size) ==
    LET new_block == block + block_size(s, block)
    IN  list_push_1(write_footer(SetHeader(Touch(s, block), new_block,
                                           split_size, FREE),
                                 new_block, split_size, FREE),
                    new_block)

place_1(s, block, asize) ==
    LET split_size == block_size(s, block) - asize
    IN  IF split_size < 0
        THEN Fail(s)
        ELSE IF split_size >= MIN_BLOCK_SIZE
        THEN place_remainder_1(
                 write_footer(
                     SetAllocated(SetBlockSize(list_pop_1(s, block), block, asize),
                                  block, ALLOC),
                     block, asize, ALLOC),
                 block, split_size)
        ELSE mark_footer(SetAllocated(list_pop_1(s, block), block, ALLOC),
                         block, ALLOC)

find_fit_1(s, asize) == fit_in_list(s, s.head, asize, MaxWalk)

(* place(block, asize); return block->body.payload *)
place_and_return_1(r, asize) == Ret(place_1(r.s, r.b, asize), r.b + HDR)

(* the end of mm_malloc: e is what extend_heap(extendwords) returned *)
mm_malloc_extended_1(e, asize) ==
    IF e.b # NULL THEN place_and_return_1(e, asize) ELSE Ret(e.s, NULL)

(* mm_malloc from the free-list search on: f is what find_fit returned *)
mm_malloc_found_1(f, asize, grant) ==
    IF f.b # NULL
    THEN place_and_return_1(f, asize)
    ELSE LET extendsize == IF asize > CHUNKSIZE THEN asize ELSE CHUNKSIZE
         IN  mm_malloc_extended_1(extend_heap_1(f.s, extendsize \div 8, grant),
                                  asize)

mm_malloc_1(s, size, grant) ==
    IF IsZero(size)
    THEN Ret(s, NULL)
    ELSE mm_malloc_found_1(find_fit_1(s, AdjustedSize(size)),
                           AdjustedSize(size), grant)

mm_free_1(s, payload) ==
    LET block == payload - HDR
    IN  coalesce_1(list_push_1(mark_footer(SetAllocated(s, block, FREE),
                                           block, FREE),
                               block),
                   block).s

(* mm_realloc after its mm_malloc call returned r *)
mm_realloc_with_1(r, ptr, size, data) ==
    IF r.b = NULL
    THEN [s |-> r.s, b |-> NULL, exit |-> TRUE]
    ELSE [s |-> mm_free_1(realloc_copy(HandOver(r.s, r.b), r.b, ptr, size, data),
                          ptr),
          b |-> r.b, exit |-> FALSE]

mm_realloc_1(s, ptr, size, data, grant) ==
    mm_realloc_with_1(mm_malloc_1(s, size, grant), ptr, size, data)

(* mm_init of mm.c: the words it stores; head is set to init_block *)
InitialWords_1(pro) ==
    LET init_block == pro + HDR
        size == CHUNKSIZE - OVERHEAD
    IN  << <<pro, HdrWord(HDR, ALLOC)>>,
           <<init_block, HdrWord(size, FREE)>>,
           <<init_block + 8, NULL>>,
           <<init_block + 16, NULL>>,
           <<init_block + size - HDR, HdrWord(size, FREE)>>,
           <<init_block + size, HdrWord(0, ALLOC)>> >>

---------------------------------------------------------------------------
(* The state machine                                                       *)

Empty == [a \in {} |-> 0]
NoCall == [op |-> "none", u |-> U(0, 0), ret |-> NULL]

Cur == [m |-> mem, top |-> mem_brk, n |-> grows, ok |-> TRUE]

Init ==
    /\ mem = Empty
    /\ mem_brk = HeapStart
    /\ grows = 0
    /\ segListHead = NULL
    /\ prologue = NULL
    /\ pc = "fresh"
    /\ live = {}
    /\ last = NoCall
    /\ calls = 0
    /\ head = NULL

(* mm_init.  Either extender call may be refused.  The result of the first *)
(* (the head array) is not tested: when it is refused, segListHead is the  *)
(* address -1 and the loop that follows stores through it, an undefined    *)
(* access.  When the second (the CHUNKSIZE region) is refused, mm_init     *)
(* returns -1.                                                             *)
MmInit(grant1, grant2) ==
    /\ pc = "fresh"
    /\ IF ~grant1
       THEN /\ segListHead' = 0 - 1
            /\ pc' = "undefined"
            /\ last' = NoCall
            /\ UNCHANGED <<mem, mem_brk, prologue>>
       ELSE /\ segListHead' = mem_brk
            /\ IF grant2
               THEN /\ prologue' = mem_brk + 8 * TOTALNUMLIST
                    /\ mem_brk' = mem_brk + 8 * TOTALNUMLIST + CHUNKSIZE
                    /\ mem' = PutAll(mem, InitialWords(mem_brk,
                                                      mem_brk + 8 * TOTALNUMLIST))
                    /\ pc' = "ready"
                    /\ last' = [op |-> "init", u |-> U(0, 0), ret |-> 0]
               ELSE /\ prologue' = 0 - 1
                    /\ mem_brk' = mem_brk + 8 * TOTALNUMLIST
                    /\ mem' = PutAll(mem, HeadWords(mem_brk))
                    /\ pc' = "init_failed"
                    /\ last' = [op |-> "init", u |-> U(0, 0), ret |-> 0 - 1]
    /\ UNCHANGED <<grows, live, calls, head>>

(* The state after a public call that ran from Cur to s.  A call whose      *)
(* execution made an undefined access leaves the program in "undefined".   *)
Commit(s, newpc, newlive, call) ==
    IF s.ok
    THEN /\ mem' = Forget(s).m
         /\ mem_brk' = s.top
         /\ grows' = s.n
         /\ pc' = newpc
         /\ live' = newlive
         /\ last' = call
         /\ calls' = calls + 1
    ELSE /\ pc' = "undefined"
         /\ last' = NoCall
         /\ UNCHANGED <<mem, mem_brk, grows, live, calls>>

MallocReturns(r, u) ==
    Commit(HandOver(r.s, r.b), pc,
           IF r.b = NULL THEN live ELSE live \cup {[p |-> r.b, u |-> u]},
           [op |-> "malloc", u |-> u, ret |-> r.b])

MmMalloc(u, grant1, grant2) ==
    /\ pc = "ready"
    /\ calls < MaxCalls
    /\ Cardinality(live) < MaxLive
    /\ MallocReturns(mm_malloc(Cur, u, grant1, grant2), u)
    /\ UNCHANGED <<segListHead, prologue, head>>

MmFree(a) ==
    /\ pc = "ready"
    /\ calls < MaxCalls
    /\ a \in live
    /\ Commit(mm_free(Cur, a.p), pc, live \ {a},
              [op |-> "free", u |-> a.u, ret |-> a.p])
    /\ UNCHANGED <<segListHead, prologue, head>>

ReallocReturns(r, a, u) ==
    Commit(r.s, IF r.exit THEN "exited" ELSE pc,
           IF r.exit THEN live ELSE (live \ {a}) \cup {[p |-> r.b, u |-> u]},
           [op |-> "realloc", u |-> u, ret |-> r.b])

MmRealloc(a, u, data, grant1, grant2) ==
    /\ pc = "ready"
    /\ calls < MaxCalls
    /\ a \in live
    /\ ReallocReturns(mm_realloc(Cur, a.p, u, data, grant1, grant2), a, u)
    /\ UNCHANGED <<segListHead, prologue, head>>

Next ==
    \/ \E g1 \in BOOLEAN, g2 \in BOOLEAN : MmInit(g1, g2)
    \/ \E u \in Requests, g \in BOOLEAN : MmMalloc(u, g, g)
    \/ \E a \in live : MmFree(a)
    \/ \E a \in live, u \in Requests, g \in BOOLEAN :
          \E d \in DataFor(u) : MmRealloc(a, u, d, g, g)

Spec == Init /\ [][Next]_vars

---------------------------------------------------------------------------
(* Views of a state at a quiescent point: the heap walk of mm_checkheap    *)
(* and the walk of a free list as find_fit does it.                        *)

Ready == pc = "ready"

IsWord(a) == a % 8 = 0 /\ a >= segListHead /\ a < mem_brk /\ a \in DOMAIN mem

(* The block addresses block = block + block->block_size visits from b on; *)
(* the last element is where the walk stops: a header of size 0, or an     *)
(* address that holds no known word.                                       *)
RECURSIVE Walk(_, _)
Walk(b, fuel) ==
    IF fuel = 0 \/ ~IsWord(b) \/ SizeOf(mem[b]) = 0
    THEN <<b>>
    ELSE <<b>> \o Walk(b + SizeOf(mem[b]), fuel - 1)

HeapWalk == Walk(prologue, MaxWalk)
WalkEnd == HeapWalk[Len(HeapWalk)]

(* The walk read no word of undetermined content: it ended on a header of  *)
(* size 0 or left the heap.                                                *)
WalkDetermined ==
    /\ Len(HeapWalk) <= MaxWalk
    /\ IsWord(WalkEnd) \/ WalkEnd >= mem_brk

(* The blocks between the two sentinels *)
Inner == { HeapWalk[i] : i \in 2..(Len(HeapWalk) - 1) }
InnerPairs == { <<HeapWalk[i], HeapWalk[i + 1]>> : i \in 2..(Len(HeapWalk) - 2) }

SizeAt(b) == SizeOf(mem[b])
FreeAt(b) == AllocOf(mem[b]) = FREE

(* The nodes of list i in order, following next from the head; the walk    *)
(* stops at NULL, at an address that is no known block, and after MaxWalk  *)
(* nodes.                                                                  *)
IsNode(b) == b # NULL /\ IsWord(b) /\ IsWord(b + 8) /\ IsWord(b + 16)

RECURSIVE Nodes(_, _)
Nodes(b, fuel) ==
    IF fuel = 0 \/ ~IsNode(b)
    THEN <<>>
    ELSE <<b>> \o Nodes(mem[b + 8], fuel - 1)

ListOf(i) == Nodes(mem[HeadAddr(i)], MaxWalk)

(* the link that ended the walk of list i *)
ListEnd(i) ==
    LET l == ListOf(i)
    IN  IF l = <<>> THEN mem[HeadAddr(i)] ELSE mem[l[Len(l)] + 8]

Occurrences(b, i) == Cardinality({ k \in 1..Len(ListOf(i)) : ListOf(i)[k] = b })

(* an address inside the heap whose words are not all known: what a walk   *)
(* would read there is undetermined                                        *)
Undetermined(b) ==
    /\ b % 8 = 0 /\ b >= segListHead /\ b + 16 < mem_brk
    /\ ~IsNode(b)

RECURSIVE SumSizes(_)
SumSizes(bs) ==
    IF bs = <<>> THEN 0
    ELSE (IF IsWord(Head(bs)) THEN SizeAt(Head(bs)) ELSE 0) + SumSizes(Tail(bs))

(* The payload of a live allocation a: the bytes from a.p up to the footer *)
(* of a block of the adjusted size that mm_malloc computed for a.u.        *)
PayloadOf(a) == [from |-> a.p, to |-> a.p + AdjustedSize(a.u) - OVERHEAD]

---------------------------------------------------------------------------
(* Heap and list invariants at quiescent points                            *)

(* C1: at every quiescent point each free block of the heap is a member of *)
(* exactly one segregated list, the list of the size class of its header   *)
(* size, and no block reachable from a list head is allocated.             *)
C1_FreeBlocksInTheirList ==
    Ready =>
      /\ \A b \in Inner : FreeAt(b) =>
            \A i \in Lists :
               Occurrences(b, i) = IF i = segListIndex(SizeAt(b)) THEN 1 ELSE 0
      /\ \A i \in Lists : \A k \in 1..Len(ListOf(i)) : FreeAt(ListOf(i)[k])

(* C2: at every quiescent point no two blocks adjacent in address order    *)
(* are both free, also right after a fast-path allocation.                 *)
C2_NoAdjacentFree ==
    Ready => \A bb \in InnerPairs : ~(FreeAt(bb[1]) /\ FreeAt(bb[2]))

(* C3: the payloads of the live allocations are pairwise disjoint byte     *)
(* ranges that lie between the prologue and the epilogue.                  *)
C3_PayloadsDisjoint ==
    Ready =>
      /\ \A a \in live :
            /\ PayloadOf(a).from >= prologue + OVERHEAD
            /\ PayloadOf(a).to <= mem_brk - OVERHEAD
      /\ \A a, b \in live :
            a # b => \/ PayloadOf(a).to <= PayloadOf(b).from
                     \/ PayloadOf(b).to <= PayloadOf(a).from

(* C4: at every quiescent point the footer of every non-sentinel block,    *)
(* the last 8 bytes of the block, carries the size and the allocated bit   *)
(* of the header.  Nothing is asserted of a footer word inside the heap    *)
(* whose content is undetermined.                                          *)
C4_FooterMatchesHeader ==
    Ready =>
      \A b \in Inner :
         LET f == b + SizeAt(b) - HDR
         IN  \/ IsWord(f) /\ mem[f] = mem[b]
             \/ f % 8 = 0 /\ f > b /\ f < mem_brk /\ f \notin DOMAIN mem

(* C5: at every quiescent point the walk from the prologue by block sizes  *)
(* starts at the prologue (allocated, size 8) and ends at the epilogue     *)
(* (allocated, size 0), whose header is the last 8 bytes of the heap; no   *)
(* header of size 0 comes before it.                                       *)
C5_WalkReachesEpilogue ==
    Ready /\ WalkDetermined =>
      /\ IsWord(prologue) /\ mem[prologue] = HdrWord(HDR, ALLOC)
      /\ IsWord(WalkEnd) /\ mem[WalkEnd] = HdrWord(0, ALLOC)
      /\ WalkEnd = mem_brk - HDR

(* C6: at every quiescent point every non-sentinel block has a size that   *)
(* is a multiple of 8 and at least MIN_BLOCK_SIZE.                         *)
C6_BlockSizes ==
    Ready => \A b \in Inner : SizeAt(b) % 8 = 0 /\ SizeAt(b) >= MIN_BLOCK_SIZE

(* C7: at every quiescent point each of the 11 lists is an acyclic doubly  *)
(* linked list: the head node's prev is NULL, n.next.prev = n, the last    *)
(* node's next is NULL, and no block occurs twice in a list or in two      *)
(* lists.                                                                  *)
C7_ListsWellFormed ==
    Ready =>
      /\ \A i \in Lists :
            LET l == ListOf(i)
            IN  /\ Len(l) < MaxWalk
                /\ ListEnd(i) = NULL \/ Undetermined(ListEnd(i))
                /\ l # <<>> => mem[l[1] + 16] = NULL
                /\ \A k \in 1..(Len(l) - 1) : mem[l[k + 1] + 16] = l[k]
                /\ \A k, j \in 1..Len(l) : k # j => l[k] # l[j]
      /\ \A i, j \in Lists : i # j =>
            \A k \in 1..Len(ListOf(i)) : Occurrences(ListOf(i)[k], j) = 0

(* The sum with the epilogue counted as 0 bytes: the header sizes of all   *)
(* blocks, the prologue (8) and the epilogue (0) included, add up to the   *)
(* bytes obtained from the extender minus the 88 bytes of the head array.  *)
(* It fails from mm_init on, the epilogue header occupies 8 bytes.         *)
SizesSumAsWorded ==
    Ready /\ WalkDetermined =>
      SumSizes(HeapWalk) = (mem_brk - segListHead) - 8 * TOTALNUMLIST

C9_NoTruncation ==
    Ready /\ last.op = "malloc" /\ last.ret # NULL =>
      LET b == last.ret - HDR
      IN  /\ IsWord(b) /\ AllocOf(mem[b]) = ALLOC
          /\ last.u.hi = 0
          /\ SizeAt(b) - OVERHEAD >= last.u.lo
          /\ SizeAt(b) - OVERHEAD
               >= ((last.u.lo + OVERHEAD + 7) \div 8) * 8 - OVERHEAD

(* C10: every payload address returned by mm_malloc or mm_realloc, and     *)
(* the payload address of every block the heap walk visits, is a multiple  *)
(* of 8.                                                                   *)
C10_PayloadsAligned ==
    Ready =>
      /\ last.ret % 8 = 0
      /\ \A a \in live : a.p % 8 = 0
      /\ \A k \in 1..Len(HeapWalk) : (HeapWalk[k] + HDR) % 8 = 0

---------------------------------------------------------------------------
(* Views of a state that a call has reached, for the before/after          *)
(* relations of single calls                                               *)

(* the blocks of s in address order as <<address, header word>>, from the  *)
(* prologue to the first header of size 0                                  *)
RECURSIVE BlocksFrom(_, _, _)
BlocksFrom(s, b, fuel) ==
    IF fuel = 0 \/ ~Known(s, b)
    THEN <<>>
    ELSE << <<b, s.m[b]>> >>
         \o (IF block_size(s, b) = 0
             THEN <<>>
             ELSE BlocksFrom(s, b + block_size(s, b), fuel - 1))

BlocksOf(s) == BlocksFrom(s, prologue, MaxWalk)

(* the same heap size, the same blocks, the same members of every list *)
Equivalent(s, t) ==
    /\ s.ok /\ t.ok
    /\ s.top = t.top
    /\ BlocksOf(s) = BlocksOf(t)
    /\ \A i \in Lists : MembersOf(s, i) = MembersOf(t, i)

(* mm_free(p) right after p = mm_malloc(u) returned r *)
free_returned(r) == mm_free(HandOver(r.s, r.b), r.b)

Grants == BOOLEAN

(* the call that produced r returned a payload *)
Returned(r) == r.s.ok /\ r.b # NULL
Positive == { u \in Requests : ~IsZero(u) }

---------------------------------------------------------------------------
(* Laws of call sequences                                                  *)

(* C11: from every reachable state, p = mm_malloc(u) with u > 0 and p      *)
(* non-null followed by mm_free(p) leaves the heap size, the sequence of   *)
(* blocks and the members of every list as they were.                      *)
C11_RoundTrip ==
    Ready =>
      \A u \in Positive, g \in Grants :
         Returned(mm_malloc(Cur, u, g, g)) =>
            Equivalent(free_returned(mm_malloc(Cur, u, g, g)), Cur)

(* The round trip of an allocation that did not grow the heap *)
RoundTripWithoutGrowth ==
    Ready =>
      \A u \in Positive, g \in Grants :
         /\ Returned(mm_malloc(Cur, u, g, g))
         /\ mm_malloc(Cur, u, g, g).s.top = mem_brk
         => Equivalent(free_returned(mm_malloc(Cur, u, g, g)), Cur)

(* p2 = mm_malloc(u) after p1 = mm_malloc(u) returned r and mm_free(p1) *)
malloc_again(r, u, g) == mm_malloc(free_returned(r), u, g, g)

(* what the claim says of p1 = mm_malloc(u), returned in r *)
same_payload(r2, r) == r2.s.ok /\ r2.b = r.b
reuse_effect(r, u, g) == Returned(r) => same_payload(malloc_again(r, u, g), r)

(* C12: from every reachable state and for every request whose adjusted    *)
(* size is above 96, p1 = mm_malloc(u); mm_free(p1); p2 = mm_malloc(u)     *)
(* with p1 non-null gives p2 = p1.                                         *)
C12_ReuseAfterFree ==
    Ready =>
      \A u \in Positive, g1 \in Grants, g2 \in Grants :
         AdjustedSize(u) > SMALL_REQUEST =>
            reuse_effect(mm_malloc(Cur, u, g1, g1), u, g2)

---------------------------------------------------------------------------
(* Single calls                                                            *)

(* the extender grants the next request of the model *)
CanGrow == grows < MaxGrow

(* every word below address a is in t what it is in s *)
SameBelow(s, t, a) ==
    \A x \in DOMAIN s.m : x < a => x \in DOMAIN t.m /\ t.m[x] = s.m[x]

(* what the claim says of r = mm_malloc(u) on the small-request path, the  *)
(* extender granting                                                       *)
fast_path_effect(r, asize) ==
    /\ r.s.ok
    /\ r.s.top = mem_brk + asize
    /\ r.b = mem_brk
    /\ Ld(r.s, mem_brk - HDR) = HdrWord(asize, ALLOC)
    /\ Ld(r.s, mem_brk + asize - OVERHEAD) = HdrWord(asize, ALLOC)
    /\ Ld(r.s, mem_brk + asize - HDR) = HdrWord(0, ALLOC)
    /\ SameBelow(Cur, r.s, mem_brk - HDR)
    /\ \A i \in Lists : MembersOf(r.s, i) = MembersOf(Cur, i)

(* C13: in every reachable state a request with adjusted size at most 96,  *)
(* the extender granting, grows the heap by exactly the adjusted size,     *)
(* returns the block at the old epilogue with that size, allocated, and    *)
(* leaves every word before the old epilogue, so every earlier block and   *)
(* every list, unchanged.                                                  *)
C13_FastPath ==
    Ready /\ CanGrow =>
      \A u \in Positive :
         AdjustedSize(u) <= SMALL_REQUEST =>
            fast_path_effect(mm_malloc(Cur, u, TRUE, TRUE), AdjustedSize(u))

(* the state mm_init has just returned 0 in *)
AfterInit == pc = "ready" /\ last.op = "init"

(* C14: right after a successful mm_init on a fresh heap the heap is the   *)
(* 88-byte head array, the prologue (allocated, size 8), one free block of *)
(* CHUNKSIZE - OVERHEAD = 65520 bytes with null next and prev, and the     *)
(* epilogue (allocated, size 0); the free block is the only member of      *)
(* list 10, the list of its size class, and the lists 0..9 are empty.      *)
C14_InitialHeap ==
    AfterInit =>
      LET first == prologue + HDR
          size == CHUNKSIZE - OVERHEAD
      IN  /\ last.ret = 0
          /\ prologue = segListHead + 8 * TOTALNUMLIST
          /\ mem_brk = prologue + CHUNKSIZE
          /\ HeapWalk = <<prologue, first, first + size>>
          /\ mem[prologue] = HdrWord(HDR, ALLOC)
          /\ mem[first] = HdrWord(size, FREE)
          /\ mem[first + 8] = NULL /\ mem[first + 16] = NULL
          /\ mem[first + size - HDR] = HdrWord(size, FREE)
          /\ mem[first + size] = HdrWord(0, ALLOC)
          /\ first + size = mem_brk - HDR
          /\ size = 65520
          /\ segListIndex(size) = TOTALNUMLIST - 1
          /\ ListOf(TOTALNUMLIST - 1) = <<first>>
          /\ \A i \in 0..(TOTALNUMLIST - 2) : mem[HeadAddr(i)] = NULL

(* mm_init has returned 0 on the fresh heap and no other call was made *)
C14_InitDone ==
    /\ AfterInit /\ calls = 0 /\ live = {}
    /\ segListHead = HeapStart /\ mem_brk > prologue

(* a block of n bytes, n < 2^30, holds a request of u bytes and the        *)
(* OVERHEAD                                                                *)
Fits(u, n) == u.hi = 0 /\ AdjustedSize(u) <= n

(* a free block that holds u is a member of some list *)
FitInLists(u) ==
    \E i \in Lists : \E b \in MembersOf(Cur, i) :
       allocated(Cur, b) = FREE /\ Fits(u, block_size(Cur, b))

(* what the claim says of r = mm_malloc(u) *)
null_return_effect(r, u) ==
    /\ r.b = NULL <=> (IsZero(u) \/ (r.s.n = grows /\ ~FitInLists(u)))
    /\ r.b = NULL => r.s.m = mem /\ r.s.top = mem_brk

(* C15: mm_malloc(u) returns NULL exactly when u = 0, or when every        *)
(* extender call it makes is refused and no free block of at least the     *)
(* adjusted size is in the lists; when it returns NULL the heap contents,  *)
(* the heap size and the lists are unchanged.                              *)
C15_NullReturns ==
    Ready =>
      \A u \in Requests, g1 \in Grants, g2 \in Grants :
         mm_malloc(Cur, u, g1, g2).s.ok =>
            null_return_effect(mm_malloc(Cur, u, g1, g2), u)

(* the addresses of the 11 list heads *)
HeadAddrs == { HeadAddr(i) : i \in Lists }

(* C16: mm_init returns -1 and stores nothing through the address the      *)
(* extender returned when the extender refuses the head array or the       *)
(* CHUNKSIZE region (the address -1 is returned and kept in segListHead   *)
(* or in prologue); it returns 0 only when both were granted.              *)
C16_InitFailure ==
    /\ segListHead = 0 - 1 =>
          pc = "init_failed" /\ last.op = "init" /\ last.ret = 0 - 1 /\ mem = Empty
    /\ prologue = 0 - 1 =>
          /\ pc = "init_failed" /\ last.op = "init" /\ last.ret = 0 - 1
          /\ DOMAIN mem = HeadAddrs
    /\ last.op = "init" /\ last.ret = 0 =>
          segListHead # 0 - 1 /\ prologue # 0 - 1

(* what the claim says of r = mm_realloc(p, u): r.exit tells that the      *)
(* process was ended by exit(1)                                            *)
realloc_abort_effect(r, p, u) ==
    /\ ~r.exit => r.b # NULL
    /\ r.exit <=> (~IsZero(u) /\ r.s.n = grows /\ ~FitInLists(u))
    /\ r.exit => /\ allocated(r.s, p - HDR) = ALLOC
                 /\ r.s.m = mem /\ r.s.top = mem_brk

(* C17: mm_realloc(p, u) never returns NULL; it ends the process exactly   *)
(* when its inner allocation fails for want of memory, the extender        *)
(* refusing and no free block holding the request; at that moment the      *)
(* block of p is still allocated and the heap and the lists are unchanged. *)
C17_ReallocAbort ==
    Ready =>
      \A a \in live, u \in Requests, g1 \in Grants, g2 \in Grants :
         \A d \in DataFor(u) :
            mm_realloc(Cur, a.p, u, d, g1, g2).s.ok =>
               realloc_abort_effect(mm_realloc(Cur, a.p, u, d, g1, g2), a.p, u)

(* the same for requests of at least one byte *)
ReallocAbortPositive ==
    Ready =>
      \A a \in live, u \in Positive, g1 \in Grants, g2 \in Grants :
         \A d \in DataFor(u) :
            mm_realloc(Cur, a.p, u, d, g1, g2).s.ok =>
               realloc_abort_effect(mm_realloc(Cur, a.p, u, d, g1, g2), a.p, u)

(* the payload capacity of the block of payload p *)
Capacity(s, p) == block_size(s, p - HDR) - OVERHEAD

(* the bytes of the old payload that the claim follows: min(u, capacity)   *)
Kept(u, p) == IF Below(u, Capacity(Cur, p)) THEN u.lo ELSE Capacity(Cur, p)

(* the block of s that holds address x *)
Holder(s, x) ==
    { b \in { BlocksOf(s)[k][1] : k \in 1..Len(BlocksOf(s)) } :
         b <= x /\ x < b + block_size(s, b) }

(* what the claim says of r = mm_realloc(p, u) when the inner allocation   *)
(* succeeded.  The bytes at q are those of p when the copy covers them,    *)
(* lies inside the payload of q, and no later store of the call lands on   *)
(* them (a payload word is known only when the allocator stored it).       *)
realloc_effect(r, p, u) ==
    /\ r.b # p
    /\ allocated(r.s, r.b - HDR) = ALLOC
    /\ u.hi = 0 /\ Capacity(r.s, r.b) >= u.lo
    /\ copySize(Cur, p, u) >= Kept(u, p)
    /\ Kept(u, p) <= Capacity(r.s, r.b)
    /\ \A x \in DOMAIN r.s.m : ~(r.b <= x /\ x < r.b + Kept(u, p))
    /\ \E b \in Holder(r.s, p - HDR) :
          /\ allocated(r.s, b) = FREE
          /\ b \in MembersOf(r.s, segListIndex(block_size(r.s, b)))

(* C18: for a live payload p and u > 0 with a successful inner allocation, *)
(* q = mm_realloc(p, u) differs from p, its block is allocated and holds   *)
(* at least u payload bytes, its first min(u, old capacity) bytes are      *)
(* those of p, and the block that held p is free, possibly merged, and a   *)
(* member of the list of its size class.                                   *)
C18_ReallocMoves ==
    Ready =>
      \A a \in live, u \in Positive, g1 \in Grants, g2 \in Grants :
         \A d \in DataFor(u) :
            /\ mm_realloc(Cur, a.p, u, d, g1, g2).s.ok
            /\ ~mm_realloc(Cur, a.p, u, d, g1, g2).exit
            => realloc_effect(mm_realloc(Cur, a.p, u, d, g1, g2), a.p, u)

(* requests for the growth rule: one above CHUNKSIZE is added *)
LargeRequest == U(0, 100000)
GrowthRequests == Positive \cup { LargeRequest }

(* the heap walk of s ends at the header in the last 8 bytes of the heap *)
WalkComplete(s) ==
    LET bs == BlocksOf(s)
    IN  Len(bs) >= 2 /\ bs[Len(bs)][1] = s.top - HDR

(* the last block before the epilogue, as the heap walk finds it, when it  *)
(* is free; NULL otherwise                                                 *)
LastFreeBlock(s) ==
    LET bs == BlocksOf(s)
        n == Len(bs)
    IN  IF n >= 3 /\ WalkComplete(s) /\ AllocOf(bs[n - 1][2]) = FREE
        THEN bs[n - 1][1]
        ELSE NULL

(* the bytes of the free region the request is placed in: the new region   *)
(* and the last block when it is free                                      *)
RegionSize(s, grown) ==
    grown + (IF LastFreeBlock(s) = NULL THEN 0
                                        ELSE block_size(s, LastFreeBlock(s)))
RegionStart(s) ==
    IF LastFreeBlock(s) = NULL THEN s.top - HDR ELSE LastFreeBlock(s)

(* what the claim says of r = mm_malloc(u) after a miss, the extender      *)
(* granting: the heap has grown by max(asize, CHUNKSIZE), the block        *)
(* returned starts where the region starts, and the region is one block,   *)
(* or the block and one free remainder, up to the new epilogue.            *)
growth_effect(r, asize) ==
    /\ r.s.top = mem_brk + Max(asize, CHUNKSIZE)
    /\ r.b = RegionStart(Cur) + HDR
    /\ allocated(r.s, r.b - HDR) = ALLOC
    /\ Capacity(r.s, r.b) + OVERHEAD >= asize
    /\ LET size == block_size(r.s, r.b - HDR)
           rest == RegionSize(Cur, Max(asize, CHUNKSIZE)) - size
       IN  /\ rest >= 0
           /\ rest > 0 => /\ Ld(r.s, r.b - HDR + size) = HdrWord(rest, FREE)
                          /\ rest >= MIN_BLOCK_SIZE
           /\ r.b - HDR + size + rest = r.s.top - HDR
    /\ Ld(r.s, r.s.top - HDR) = HdrWord(0, ALLOC)

(* C19: when a request with adjusted size above 96 finds no fit and the    *)
(* extender grants, the heap grows by exactly max(asize, CHUNKSIZE) bytes  *)
(* whether or not the last block is free, the new region is merged with    *)
(* the last block when that one is free, and the payload returned starts   *)
(* at the start of the merged block.  The last block is the one the heap   *)
(* walk finds before the epilogue; nothing is asserted in a state whose    *)
(* walk does not reach the end of the heap.                                *)
C19_GrowthOnMiss ==
    Ready /\ CanGrow /\ WalkComplete(Cur) =>
      \A u \in GrowthRequests :
         /\ AdjustedSize(u) > SMALL_REQUEST
         /\ find_fit(Cur, AdjustedSize(u)).s.ok
         /\ find_fit(Cur, AdjustedSize(u)).b = NULL
         /\ mm_malloc(Cur, u, TRUE, TRUE).s.ok
         => growth_effect(mm_malloc(Cur, u, TRUE, TRUE), AdjustedSize(u))

(* the current state with its list calls observed *)
Observed ==
    [m |-> mem, top |-> mem_brk, n |-> grows, ok |-> TRUE, pre |-> TRUE]

(* C20: in every call of mm_malloc, mm_free and mm_realloc from a          *)
(* reachable state, each list_pop(b, k) is made with b a member of list k  *)
(* and each list_push(b, k) with b in no list, and in both k is the class  *)
(* of the size in the header of b at the call, a size of at least 32, so   *)
(* that k lies in 0..10.                                                   *)
C20_ListCallsGuarded ==
    Ready =>
      /\ \A u \in Positive, g1 \in Grants, g2 \in Grants :
            mm_malloc(Observed, u, g1, g2).s.pre
      /\ \A a \in live : mm_free(Observed, a.p).pre
      /\ \A a \in live, u \in Positive, g1 \in Grants, g2 \in Grants :
            \A d \in DataFor(u) :
               mm_realloc(Observed, a.p, u, d, g1, g2).s.pre

---------------------------------------------------------------------------
(* Coalescing on mm_free                                                   *)

(* the position of block b in the heap walk of s, 0 when the walk does not *)
(* visit b                                                                 *)
WalkIndex(s, b) ==
    LET bs == BlocksOf(s)
    IN  IF \E k \in 1..Len(bs) : bs[k][1] = b
        THEN CHOOSE k \in 1..Len(bs) : bs[k][1] = b
        ELSE 0

(* the block before b and the block behind b in address order, when free;  *)
(* NULL otherwise                                                          *)
prev_free(s, b) ==
    LET bs == BlocksOf(s)
        k == WalkIndex(s, b)
    IN  IF k >= 2 /\ AllocOf(bs[k - 1][2]) = FREE THEN bs[k - 1][1] ELSE NULL

next_free(s, b) ==
    LET bs == BlocksOf(s)
        k == WalkIndex(s, b)
    IN  IF k >= 1 /\ k < Len(bs) /\ AllocOf(bs[k + 1][2]) = FREE
        THEN bs[k + 1][1] ELSE NULL

SizeOrZero(s, b) == IF b = NULL THEN 0 ELSE block_size(s, b)

(* what the claim says of t = mm_free(p), block the block of p: the        *)
(* participants are block and its free neighbours in Cur                   *)
free_effect(t, block) ==
    LET pf == prev_free(Cur, block)
        nf == next_free(Cur, block)
        parts == ({block, pf, nf}) \ {NULL}
        start == IF pf = NULL THEN block ELSE pf
        total == SizeOrZero(Cur, pf) + block_size(Cur, block) + SizeOrZero(Cur, nf)
    IN  /\ t.ok
        /\ Ld(t, start) = HdrWord(total, FREE)
        /\ Ld(t, start + total - HDR) = HdrWord(total, FREE)
        /\ WalkIndex(t, start) > 0
        /\ \A x \in parts \ {start} : WalkIndex(t, x) = 0
        /\ segListIndex(total) \in Lists
        /\ HeadOf(t, segListIndex(total)) = start
        /\ \A i \in Lists :
              MembersOf(t, i) \cap parts
                 = IF i = segListIndex(total) THEN {start} ELSE {}

(* C21: mm_free(p) on a live payload p merges the block of p with each of  *)
(* its address-adjacent neighbours that is free: afterwards one free block *)
(* starts at the lowest address of the participants, its size is the sum   *)
(* of their sizes, it is the head of the list of the class of that size,   *)
(* and no participant is a member of any other list.  The neighbours are   *)
(* those of the heap walk; nothing is asserted of a payload whose block    *)
(* the heap walk does not visit.                                           *)
C21_FreeMerges ==
    Ready =>
      \A a \in live :
         WalkIndex(Cur, a.p - HDR) > 0 => free_effect(mm_free(Cur, a.p), a.p - HDR)

---------------------------------------------------------------------------
(* place                                                                   *)

(* the members of all lists of s *)
AllMembers(s) == UNION { MembersOf(s, i) : i \in Lists }

(* the free listed blocks of the current state: free by the header and a   *)
(* member of the list of the class of the header size                      *)
FreeListed ==
    { b \in AllMembers(Cur) :
         /\ allocated(Cur, b) = FREE
         /\ block_size(Cur, b) >= MIN_BLOCK_SIZE
         /\ b \in MembersOf(Cur, segListIndex(block_size(Cur, b))) }

(* adjusted sizes to place in a block of n bytes: the smallest, one that   *)
(* is mid-sized, and those that leave 32, 24, 8 and 0 bytes                *)
PlaceSizes(n) ==
    { x \in { MIN_BLOCK_SIZE, 120, n - 32, n - 24, n - 8, n } :
         x >= MIN_BLOCK_SIZE /\ x <= n /\ x % 8 = 0 }

(* what the claim says of t = place(b, asize), n the size of b before *)
place_effect(t, b, asize, n) ==
    /\ t.ok
    /\ b \notin AllMembers(t)
    /\ IF n - asize >= MIN_BLOCK_SIZE
       THEN /\ Ld(t, b) = HdrWord(asize, ALLOC)
            /\ Ld(t, b + asize - HDR) = HdrWord(asize, ALLOC)
            /\ Ld(t, b + asize) = HdrWord(n - asize, FREE)
            /\ Ld(t, b + n - HDR) = HdrWord(n - asize, FREE)
            /\ segListIndex(n - asize) \in Lists
            /\ HeadOf(t, segListIndex(n - asize)) = b + asize
            /\ AllMembers(t) = (AllMembers(Cur) \ {b}) \cup {b + asize}
            /\ Cardinality(AllMembers(t)) = Cardinality(AllMembers(Cur))
       ELSE /\ Ld(t, b) = HdrWord(n, ALLOC)
            /\ Ld(t, b + n - HDR) = HdrWord(n, ALLOC)
            /\ AllMembers(t) = AllMembers(Cur) \ {b}
            /\ Cardinality(AllMembers(t)) = Cardinality(AllMembers(Cur)) - 1

(* C22: place(b, asize) on a free listed block b of n >= asize bytes: when *)
(* n - asize >= 32, b becomes an allocated block of asize bytes and a free *)
(* block of n - asize bytes starts at b + asize and heads the list of its  *)
(* class; otherwise b is allocated with its n bytes and no block is        *)
(* created; in both cases b leaves its list, the other members stay, and   *)
(* the number of list entries stays equal or shrinks by one.               *)
C22_PlaceSplits ==
    Ready =>
      \A b \in FreeListed :
         \A asize \in PlaceSizes(block_size(Cur, b)) :
            place_effect(place(Cur, b, asize), b, asize, block_size(Cur, b))

---------------------------------------------------------------------------
(* find_fit                                                                *)

(* the members of a list of s in the order of the next links *)
RECURSIVE NodesSeq(_, _, _)
NodesSeq(s, b, fuel) ==
    IF fuel = 0 \/ b = NULL \/ ~Known(s, b) \/ ~Known(s, b + 8)
    THEN <<>>
    ELSE <<b>> \o NodesSeq(s, NextOf(s, b), fuel - 1)

ListSeq(s, i) == NodesSeq(s, HeadOf(s, i), MaxWalk)

(* the lists i .. 10 of s one after the other *)
RECURSIVE SearchOrder(_, _)
SearchOrder(s, i) ==
    IF i \notin Lists THEN <<>> ELSE ListSeq(s, i) \o SearchOrder(s, i + 1)

(* the first block of at least asize bytes in the search order that starts *)
(* at the list of the class of asize; NULL when there is none              *)
FirstFit(s, asize) ==
    LET order == SearchOrder(s, segListIndex(asize))
        fits == { k \in 1..Len(order) : block_size(s, order[k]) >= asize }
    IN  IF fits = {} THEN NULL
        ELSE order[CHOOSE k \in fits : \A j \in fits : k <= j]

(* the live blocks that are in no list: what list_push may be given; a     *)
(* block whose header is not known is left out                             *)
Unlisted == { b \in { a.p - HDR : a \in live } : Known(Cur, b) } \ AllMembers(Cur)

(* C23: a request with adjusted size above 96 that is served from the      *)
(* lists gets the first block of at least that size in the order list      *)
(* class(asize) from head to tail, then the next list from head to tail,   *)
(* up to list 10; and list_push puts a block that is in no list before all *)
(* members of its list, so that each list is in the order last pushed      *)
(* first.                                                                  *)
C23_FirstFitOrder ==
    Ready =>
      /\ \A u \in GrowthRequests, g \in Grants :
            /\ AdjustedSize(u) > SMALL_REQUEST
            /\ find_fit(Cur, AdjustedSize(u)).s.ok
            /\ find_fit(Cur, AdjustedSize(u)).b # NULL
            => /\ find_fit(Cur, AdjustedSize(u)).b = FirstFit(Cur, AdjustedSize(u))
               /\ mm_malloc(Cur, u, g, g).b = FirstFit(Cur, AdjustedSize(u)) + HDR
      /\ \A b \in Unlisted, i \in Lists :
            ListSeq(list_push(Cur, b, i), i) = <<b>> \o ListSeq(Cur, i)

(* block sizes around the class boundaries 2^6 .. 2^17 *)
RECURSIVE TwoTo(_)
TwoTo(j) == IF j = 0 THEN 1 ELSE 2 * TwoTo(j - 1)

SizeSamples ==
    { MIN_BLOCK_SIZE, 40, 48, 56 }
       \cup UNION { { TwoTo(j) - 8, TwoTo(j), TwoTo(j) + 8 } : j \in 6..17 }

(* the free blocks of at least asize bytes that the heap walk of s finds *)
FreeBlocksFor(s, asize) ==
    { k \in 1..Len(BlocksOf(s)) :
         /\ AllocOf(BlocksOf(s)[k][2]) = FREE
         /\ SizeOf(BlocksOf(s)[k][2]) >= asize }

(* C24: in every reachable state a request with adjusted size above 96     *)
(* extends the heap only when the heap holds no free block of at least     *)
(* that size; the class of a size is monotone in the size.                 *)
C24_ExtendOnlyOnMiss ==
    /\ \A x \in SizeSamples, y \in SizeSamples :
          x <= y => segListIndex(x) <= segListIndex(y)
    /\ Ready /\ CanGrow =>
         \A u \in GrowthRequests :
            /\ AdjustedSize(u) > SMALL_REQUEST
            /\ mm_malloc(Cur, u, TRUE, TRUE).s.top > mem_brk
            => FreeBlocksFor(Cur, AdjustedSize(u)) = {}

---------------------------------------------------------------------------
(* Arithmetic of the adjusted size                                         *)

(* ((size + OVERHEAD + 7) >> 3) << 3 as the size_t value it is before it   *)
(* is stored into asize, written hi * 2^30 + lo                            *)
AlignedRequest(u) ==
    LET lo1 == u.lo + OVERHEAD + 7
    IN  U(u.hi + (lo1 \div TwoTo30), ((lo1 % TwoTo30) \div 8) * 8)

(* C25: for every request u > 0 the adjusted size that mm_malloc keeps in  *)
(* its 32-bit asize is max(32, align8(u + 16)): the aligned value is below *)
(* 2^32, so nothing is lost when it is stored, and below 2^31, so it fits  *)
(* the block_size field.                                                   *)
C25_AdjustedSizeExact ==
    Ready =>
      \A u \in Positive :
         /\ AlignedRequest(u).hi < 2
         /\ AdjustedSize(u)
               = Max(MIN_BLOCK_SIZE,
                     AlignedRequest(u).hi * TwoTo30 + AlignedRequest(u).lo)

---------------------------------------------------------------------------
(* The copy of mm_realloc                                                  *)

(* min(u, n) for a size_t u and a block size n *)
MinOf(u, n) == IF Below(u, n) THEN u.lo ELSE n

(* what the claim says of the copy of mm_realloc(p, u) after its           *)
(* mm_malloc returned r, h the state in which the new payload is the       *)
(* client's: the count is min(u, old block size), it is at most the        *)
(* capacity of the new block, and the copy runs without an undefined       *)
(* access and stores no word outside the new payload                       *)
copy_effect(r, h, p, u, d) ==
    /\ copySize(r.s, p, u) = MinOf(u, block_size(Cur, p - HDR))
    /\ copySize(r.s, p, u) <= Capacity(r.s, r.b)
    /\ realloc_copy(h, r.b, p, u, d).ok
    /\ realloc_copy(h, r.b, p, u, d).m = h.m

(* C26: in mm_realloc(p, u) the number of bytes copied is min(u, size of   *)
(* the old block, header and footer included), and in every reachable      *)
(* state it is at most the payload capacity of the new block, so that the  *)
(* copy stores nothing into a header, a footer, a link or another payload. *)
C26_CopyWithinPayload ==
    Ready =>
      \A a \in live, u \in Positive, g1 \in Grants, g2 \in Grants :
         \A d \in DataFor(u) :
            Returned(mm_malloc(Cur, u, g1, g2)) =>
               copy_effect(mm_malloc(Cur, u, g1, g2),
                           HandOver(mm_malloc(Cur, u, g1, g2).s,
                                    mm_malloc(Cur, u, g1, g2).b),
                           a.p, u, d)

---------------------------------------------------------------------------
(* Frame of the public calls                                               *)

(* what the claim says of the live payload p in the state t that a call    *)
(* not releasing p has reached: the header of its block is what it was, it *)
(* says allocated, the footer says the same, and no word of the payload    *)
(* was stored by the allocator (such a word would be known to t)           *)
frame_effect(t, p) ==
    /\ t.ok
    /\ Known(t, p - HDR)
    /\ Known(Cur, p - HDR)
    /\ Ld(t, p - HDR) = Ld(Cur, p - HDR)
    /\ allocated(t, p - HDR) = ALLOC
    /\ Ld(t, get_footer(t, p - HDR)) = Ld(t, p - HDR)
    /\ \A x \in DOMAIN t.m : ~(p <= x /\ x < PayloadEnd(t, p))

(* C27: across every mm_malloc, every mm_free(q) and every                 *)
(* mm_realloc(q, u) with q # p, the block of a live payload p keeps its    *)
(* address, its size and its allocated bit in header and footer, and the   *)
(* allocator stores no byte of the payload of p.                           *)
C27_LiveBlocksKept ==
    Ready =>
      \A a \in live :
         /\ \A u \in Requests, g1 \in Grants, g2 \in Grants :
               frame_effect(mm_malloc(Cur, u, g1, g2).s, a.p)
         /\ \A q \in live \ {a} :
               /\ frame_effect(mm_free(Cur, q.p), a.p)
               /\ \A u \in Requests, g1 \in Grants, g2 \in Grants :
                     \A d \in DataFor(u) :
                        frame_effect(mm_realloc(Cur, q.p, u, d, g1, g2).s, a.p)

---------------------------------------------------------------------------
(* The state machine of the single-list allocator                          *)

Cur_1 == [m |-> mem, top |-> mem_brk, n |-> grows, ok |-> TRUE, head |-> head]

MmInit_1(grant) ==
    /\ pc = "fresh"
    /\ IF grant
       THEN /\ prologue' = mem_brk
            /\ mem_brk' = mem_brk + CHUNKSIZE
            /\ mem' = PutAll(mem, InitialWords_1(mem_brk))
            /\ head' = mem_brk + HDR
            /\ pc' = "ready"
            /\ last' = [op |-> "init", u |-> U(0, 0), ret |-> 0]
       ELSE /\ prologue' = 0 - 1
            /\ pc' = "init_failed"
            /\ last' = [op |-> "init", u |-> U(0, 0), ret |-> 0 - 1]
            /\ UNCHANGED <<mem, mem_brk, head>>
    /\ UNCHANGED <<grows, live, calls, segListHead>>

Commit_1(s, newpc, newlive, call) ==
    /\ Commit(s, newpc, newlive, call)
    /\ head' = IF s.ok THEN s.head ELSE head
    /\ UNCHANGED <<segListHead, prologue>>

MallocReturns_1(r, u) ==
    Commit_1(HandOver(r.s, r.b), pc,
             IF r.b = NULL THEN live ELSE live \cup {[p |-> r.b, u |-> u]},
             [op |-> "malloc", u |-> u, ret |-> r.b])

MmMalloc_1(u, grant) ==
    /\ pc = "ready"
    /\ calls < MaxCalls
    /\ Cardinality(live) < MaxLive
    /\ MallocReturns_1(mm_malloc_1(Cur_1, u, grant), u)

MmFree_1(a) ==
    /\ pc = "ready"
    /\ calls < MaxCalls
    /\ a \in live
    /\ Commit_1(mm_free_1(Cur_1, a.p), pc, live \ {a},
                [op |-> "free", u |-> a.u, ret |-> a.p])

ReallocReturns_1(r, a, u) ==
    Commit_1(r.s, IF r.exit THEN "exited" ELSE pc,
             IF r.exit THEN live ELSE (live \ {a}) \cup {[p |-> r.b, u |-> u]},
             [op |-> "realloc", u |-> u, ret |-> r.b])

MmRealloc_1(a, u, data, grant) ==
    /\ pc = "ready"
    /\ calls < MaxCalls
    /\ a \in live
    /\ ReallocReturns_1(mm_realloc_1(Cur_1, a.p, u, data, grant), a, u)

Next_1 ==
    \/ \E g \in BOOLEAN : MmInit_1(g)
    \/ \E u \in Requests, g \in BOOLEAN : MmMalloc_1(u, g)
    \/ \E a \in live : MmFree_1(a)
    \/ \E a \in live, u \in Requests, g \in BOOLEAN :
          \E d \in DataFor(u) : MmRealloc_1(a, u, d, g)

SpecHandout == Init /\ [][Next_1]_vars

(* the list from head in the order of the next links *)
List_1 == NodesSeq(Cur_1, head, MaxWalk)

(* the free blocks the heap walk finds, the sentinels left out *)
FreeBlocks_1 ==
    { BlocksOf(Cur_1)[k][1] :
         k \in { j \in 2..Len(BlocksOf(Cur_1)) :
                    /\ AllocOf(BlocksOf(Cur_1)[j][2]) = FREE
                    /\ SizeOf(BlocksOf(Cur_1)[j][2]) > 0 } }

(* C28: in the single-list allocator, after mm_init and any sequence of    *)
(* mm_malloc, mm_free and mm_realloc calls on valid arguments, the list    *)
(* reachable from head holds every free block of the heap exactly once and *)
(* no allocated block, head is NULL exactly when the heap has no free      *)
(* block, and no two blocks adjacent in address order are both free.       *)
C28_SingleListInvariant ==
    Ready =>
      /\ \A b \in FreeBlocks_1 :
            Cardinality({ k \in 1..Len(List_1) : List_1[k] = b }) = 1
      /\ \A k \in 1..Len(List_1) : List_1[k] \in FreeBlocks_1
      /\ head = NULL <=> FreeBlocks_1 = {}
      /\ \A k \in 1..(Len(BlocksOf(Cur_1)) - 1) :
            ~(/\ AllocOf(BlocksOf(Cur_1)[k][2]) = FREE
              /\ AllocOf(BlocksOf(Cur_1)[k + 1][2]) = FREE)

=============================================================================
